---- MODULE Spec2Model ----
(***************************************************************************)
(* Model of library_downloader (src/downloader.py, src/__init__.py): the   *)
(* retrying installer install_with_retry, the coordinator                  *)
(* check_and_install_package, the script scanner start_library_download,   *)
(* the environment isolator create_virtualenv and the import hook.         *)
(*                                                                         *)
(* Each operating-system process p runs synchronous Python code; its       *)
(* position is a call stack of frames.  Processes share the interpreter    *)
(* environment (site-packages), the working directory (venv) and the lock  *)
(* files; packages_to_install is a module global, one per process.         *)
(***************************************************************************)
EXTENDS Integers, Sequences, FiniteSets, TLC

\* ------------------------------------------------------------------ bounds
\* Top-level calls of the module's functions made in one run, all processes together.
MaxCalls == 2
\* Largest value of the retries argument in a direct call of install_with_retry.
MaxRetries == 3
\* pip exit codes range over 0..MaxExit (0 success; 1, 2, 3 classified; others unknown).
MaxExit == 4

\* The interpreter's recursion limit (sys.getrecursionlimit()), in find_spec frames.
MaxDepth == 2

\* -------------------------------------------------------- program constants
\* def install_with_retry(package_name, retries=3)
DefaultRetries == 3

Procs == {1, 2}
Names == {"os", "numpy", "six"}
\* Names the interpreter always resolves (the standard library).
Stdlib == {"os"}
\* create_virtualenv's default dependencies (line 85).
Dependencies == {"requests", "flask"}
ExitCodes == 0..MaxExit
\* The interpreter environments pip installs into: the base interpreter's, and the
\* virtual environment a process was started in (sys.prefix /= sys.base_prefix).
Envs == {"base", "started_venv"}
RetryArgs == 1..MaxRetries

\* The value a Python function returns when it falls off its end.
NoneValue == [none |-> TRUE]

VARIABLES
    stack,                \* stack[p]: the call stack of process p, innermost frame last
    installed,            \* installed[env]: names pip has installed into environment env
    venv_dir,             \* os.path.exists("venv")
    activate_script,      \* os.path.exists of the activation script
    venv_packages,        \* what pip has installed into the environment at "venv"
    lock,                 \* lock[name]: the process holding <tmp>/<name>.lock, or 0
    packages_to_install,  \* packages_to_install[p]: the module-level list
    in_venv,              \* in_venv[p]: sys.prefix /= sys.base_prefix
    ncalls,               \* top-level calls made so far
    iwr,                  \* iwr[p]: what the current install_with_retry activation did
    opr                   \* opr[p]: what the current top-level call did

vars == <<stack, installed, venv_dir, activate_script, venv_packages, lock, packages_to_install,
          in_venv, ncalls, iwr, opr>>

\* The working directory's state: the venv directory, its script and its packages.
fs == <<venv_dir, activate_script, venv_packages>>

\* ------------------------------------------------------------------ frames
Frame(pc, pkg, uv, k, n) ==
    [pc |-> pc, pkg |-> pkg, uv |-> uv, k |-> k, n |-> n, exc |-> "none", st |-> ""]

Top(s) == s[Len(s)]
Pop(s) == SubSeq(s, 1, Len(s) - 1)
Push(s, f) == Append(s, f)
SetTop(s, f) == [s EXCEPT ![Len(s)] = f]
Goto(s, pc) == [s EXCEPT ![Len(s)].pc = pc]

At(p, pc) == stack[p] /= <<>> /\ Top(stack[p]).pc = pc

NoIwr == [live |-> FALSE, pkg |-> "", n |-> 0, pips |-> 0, sleeps |-> <<>>, code |-> 0,
          msg |-> "none", logs |-> {}, at |-> 0, returned |-> FALSE, result |-> NoneValue,
          target |-> "none"]

NoOp == [fn |-> "none", pkg |-> "", uv |-> FALSE, probe |-> "none", importable |-> FALSE,
         subprocs |-> 0, creations |-> 0, created |-> 0, depinstalls |-> 0,
         locks |-> 0, prompts |-> <<>>, answers |-> <<>>, reinstalled |-> <<>>,
         checked |-> <<>>, exhausted |-> <<>>, popups |-> <<>>,
         script |-> "unseen", reentered |-> 0, unexpected |-> 0, uncaught |-> "none", done |-> FALSE]

StartOp(fn, pkg, uv) == [NoOp EXCEPT !.fn = fn, !.pkg = pkg, !.uv = uv]

\* The frames of check_and_install_package that are inside its try body: the frame is
\* waiting for create_virtualenv (to continue at line 154) or for install_with_retry.
CipTryPcs == {"cip_install", "cip_end_try"}

\* An exception e leaves the innermost frame of s (already popped): the stack and
\* the exception (if any) that results once it has reached a handler.
RECURSIVE Raise(_, _)
Raise(s, e) ==
    IF s = <<>> THEN [stack |-> <<>>, exc |-> e]
    ELSE LET f == Top(s) IN
         IF f.pc \in CipTryPcs
         THEN IF e = "CalledProcessError"
              \* line 156-157: the handler binds no name, and reading e raises
              \* UnboundLocalError inside the handler, which leaves the function
              THEN Raise(Pop(s), "UnboundLocalError")
              \* line 163: except Exception as e
              ELSE [stack |-> SetTop(s, [f EXCEPT !.pc = "cip_except_Exception", !.exc = e]),
                    exc |-> "none"]
         ELSE IF f.pc = "iwl_unlock"
         THEN [stack |-> SetTop(s, [f EXCEPT !.exc = e]), exc |-> "none"]
         ELSE Raise(Pop(s), e)

\* Process p's stack becomes s; when that ends its top-level call, record it.
Finish(p, s, e) ==
    /\ stack' = [stack EXCEPT ![p] = s]
    /\ opr' = [opr EXCEPT ![p].done = (s = <<>>), ![p].uncaught = e]

\* The innermost function of process p returns normally, having done o.
Return(p, o) ==
    /\ stack' = [stack EXCEPT ![p] = Pop(@)]
    /\ opr' = [opr EXCEPT ![p] = [o EXCEPT !.done = (Len(stack[p]) = 1)]]

TypeOK ==
    /\ installed \in [Envs -> SUBSET Names]
    /\ venv_dir \in BOOLEAN /\ activate_script \in BOOLEAN
    /\ lock \in [Names -> Procs \cup {0}]
    /\ in_venv \in [Procs -> BOOLEAN]
    /\ ncalls \in 0..MaxCalls

InitWith(venvs) ==
    /\ stack = [p \in Procs |-> <<>>]
    /\ installed = [e \in Envs |-> {}]
    /\ venv_dir = FALSE
    /\ activate_script = FALSE
    /\ venv_packages = {}
    /\ lock = [x \in Names |-> 0]
    /\ packages_to_install = [p \in Procs |-> <<>>]
    /\ in_venv \in venvs
    /\ ncalls = 0
    /\ iwr = [p \in Procs |-> NoIwr]
    /\ opr = [p \in Procs |-> NoOp]

\* One process (process 1) runs, inside or outside a virtual environment.
Init == InitWith({v \in [Procs -> BOOLEAN] : ~v[2]})

\* Two processes run on the host, each inside or outside a virtual environment.
ConcInit == InitWith([Procs -> BOOLEAN])

\* ------------------------------------------------------- install_with_retry
\* The environment sys.executable of process p belongs to.
Env(p) == IF in_venv[p] THEN "started_venv" ELSE "base"

\* Lines 60-75: the message printed for a failed attempt.
ClassifyConflictAsOutdated(code) ==
    IF code = 1 THEN "generic" ELSE IF code \in {2, 3} THEN "outdated" ELSE "unknown"
Classify(code) ==
    IF code = 1 THEN "generic"
    ELSE IF code = 2 THEN "outdated"
    ELSE IF code = 3 THEN "conflict"
    ELSE "unknown"

\* Line 77: time.sleep(2 ** attempt)
BackoffLinear(attempt) == 2 * attempt
Backoff(attempt) == 2 ^ attempt

\* Line 55: break. Whether the loop goes on to attempt k+1 of n after a success.
ContinuesWithoutBreak(k, n) == k + 1 < n
ContinuesAfterSuccess(k, n) == FALSE

\* install_with_retry(pkg, n) is entered by process p from stack s.
EnterIwr(p, s, pkg, n) ==
    /\ stack' = [stack EXCEPT ![p] = Push(s, Frame("iwr_check_call", pkg, FALSE, 0, n))]
    /\ iwr' = [iwr EXCEPT ![p] = [NoIwr EXCEPT !.live = TRUE, !.pkg = pkg, !.n = n]]

\* A direct call of install_with_retry(package_name, retries) begins.
install_with_retry_enter(p) ==
    /\ At(p, "iwr_enter")
    /\ EnterIwr(p, Pop(stack[p]), Top(stack[p]).pkg, Top(stack[p]).n)
    /\ UNCHANGED <<installed, fs, lock, packages_to_install, in_venv, ncalls, opr>>

\* Line 52: subprocess.check_call starts pip.
install_with_retry_call(p) ==
    /\ At(p, "iwr_check_call")
    /\ stack' = [stack EXCEPT ![p] = Goto(@, "iwr_pip")]
    /\ iwr' = [iwr EXCEPT ![p].pips = @ + 1, ![p].target = Env(p)]
    /\ opr' = [opr EXCEPT ![p].subprocs = @ + 1]
    /\ UNCHANGED <<installed, fs, lock, packages_to_install,
                   in_venv, ncalls>>

\* Line 52: subprocess.check_call cannot start the interpreter and raises OSError,
\* which install_with_retry does not catch.
install_with_retry_oserror(p) ==
    /\ At(p, "iwr_check_call")
    /\ LET r == Raise(Pop(stack[p]), "OSError") IN Finish(p, r.stack, r.exc)
    /\ iwr' = [iwr EXCEPT ![p].live = FALSE]
    /\ UNCHANGED <<installed, fs, lock, packages_to_install,
                   in_venv, ncalls>>

\* install_with_retry falls off its end (after break, or after the last iteration):
\* it returns None. r is what the activation did.
IwrReturn(p, r) ==
    /\ iwr' = [iwr EXCEPT ![p] = [r EXCEPT !.live = FALSE, !.returned = TRUE,
                                           !.result = NoneValue]]
    /\ Finish(p, Pop(stack[p]), "none")

\* Lines 52-77: pip exits with `code`. 0: lines 53-55. Otherwise check_call raises
\* CalledProcessError, the handler classifies the code and starts the backoff sleep.
install_with_retry_exit(p, codes) ==
    /\ At(p, "iwr_pip")
    /\ \E code \in codes :
         LET f == Top(stack[p]) IN
         IF code = 0
         THEN /\ installed' = [installed EXCEPT ![Env(p)] = @ \cup {f.pkg}]
              /\ IF ContinuesAfterSuccess(f.k, f.n)
                 THEN /\ stack' = [stack EXCEPT ![p] =
                                      SetTop(@, [f EXCEPT !.pc = "iwr_check_call", !.k = f.k + 1])]
                      /\ iwr' = [iwr EXCEPT ![p].logs = @ \cup {"success"}, ![p].at = f.k + 1]
                      /\ UNCHANGED opr
                 ELSE IwrReturn(p, [iwr[p] EXCEPT !.logs = @ \cup {"success"}, !.at = f.k + 1])
         ELSE /\ iwr' = [iwr EXCEPT ![p].code = code, ![p].msg = Classify(code),
                                    ![p].sleeps = Append(@, Backoff(f.k))]
              /\ stack' = [stack EXCEPT ![p] = Goto(@, "iwr_sleep")]
              /\ UNCHANGED <<installed, opr>>
    /\ UNCHANGED <<fs, lock, packages_to_install, in_venv, ncalls>>

\* Lines 77-80 and the loop head: the sleep ends; after the last attempt the failure
\* is logged; the loop goes on to the next attempt or the function returns.
install_with_retry_wake(p) ==
    /\ At(p, "iwr_sleep")
    /\ LET f == Top(stack[p])
           out == IF f.k = f.n - 1 THEN iwr[p].logs \cup {"exhausted"} ELSE iwr[p].logs IN
       IF f.k + 1 < f.n
       THEN /\ stack' = [stack EXCEPT ![p] =
                            SetTop(@, [f EXCEPT !.pc = "iwr_check_call", !.k = f.k + 1])]
            /\ iwr' = [iwr EXCEPT ![p].logs = out]
            /\ UNCHANGED opr
       ELSE IwrReturn(p, [iwr[p] EXCEPT !.logs = out])
    /\ UNCHANGED <<installed, fs, lock, packages_to_install,
                   in_venv, ncalls>>

\* ------------------------------------------------------------ show_popup
\* Lines 132-137: a desktop notification with the given title.
show_popup(o, title) == [o EXCEPT !.popups = Append(@, title)]

\* ----------------------------------------------------- create_virtualenv
\* Line 88: if not os.path.exists(venv_dir). Whether "python -m venv" is run.
CreatesAlways(exists) == TRUE
NeedsCreation(exists) == ~exists

\* Lines 88-94: the venv directory is looked up; when absent, "python -m venv" starts.
create_virtualenv_check(p) ==
    /\ At(p, "cv_check")
    /\ IF NeedsCreation(venv_dir)
       THEN /\ stack' = [stack EXCEPT ![p] = Goto(@, "cv_venv")]
            /\ opr' = [opr EXCEPT ![p].subprocs = @ + 1, ![p].creations = @ + 1]
       ELSE /\ stack' = [stack EXCEPT ![p] = Goto(@, "cv_activate")]
            /\ UNCHANGED opr
    /\ UNCHANGED <<installed, fs, lock, packages_to_install, in_venv, ncalls, iwr>>

\* Line 91: "python -m venv" exits. On success the directory exists, with or without
\* its activation script (a broken toolchain); on failure check_call raises
\* CalledProcessError and the directory may be left behind.
create_virtualenv_exit(p) ==
    /\ At(p, "cv_venv")
    /\ \/ /\ venv_dir' = TRUE
          /\ activate_script' \in BOOLEAN
          /\ stack' = [stack EXCEPT ![p] = Goto(@, "cv_activate")]
          /\ opr' = [opr EXCEPT ![p].created = @ + 1]
       \/ /\ venv_dir' \in {venv_dir, TRUE}
          /\ UNCHANGED activate_script
          /\ LET r == Raise(Pop(stack[p]), "CalledProcessError") IN Finish(p, r.stack, r.exc)
    /\ UNCHANGED <<installed, venv_packages, lock, packages_to_install, in_venv, ncalls, iwr>>

\* Lines 103-116: what follows the lookup of the activation script: the error and
\* return of lines 105-109, install_dependencies (line 113), or the instructions.
ActivationOutcomeWithoutReturn(script_exists, install_deps) ==
    IF install_deps THEN "install" ELSE "notify"
ActivationOutcome(script_exists, install_deps) ==
    IF ~script_exists THEN "error"
    ELSE IF install_deps THEN "install"
    ELSE "notify"

\* Lines 97-116: the activation script is looked up; when it is missing the error is
\* shown and the function returns; otherwise dependencies are installed on request
\* and the activation instructions are shown.
create_virtualenv_activate(p) ==
    /\ At(p, "cv_activate")
    /\ LET f == Top(stack[p])
           o == [opr[p] EXCEPT !.script = IF activate_script THEN "present" ELSE "absent"]
           next == ActivationOutcome(activate_script, f.uv) IN
       IF next = "error"
       THEN Return(p, show_popup(o, "Error"))
       ELSE IF next = "install"
       THEN /\ stack' = [stack EXCEPT ![p] =
                            Push(Goto(@, "cv_popup"), Frame("id_call", "", FALSE, 0, 0))]
            /\ opr' = [opr EXCEPT ![p] = o]
       ELSE Return(p, show_popup(o, "Virtual Environment Setup"))
    /\ UNCHANGED <<installed, fs, lock, packages_to_install, in_venv, ncalls, iwr>>

\* Line 116, after install_dependencies has returned.
create_virtualenv_popup(p) ==
    /\ At(p, "cv_popup")
    /\ Return(p, show_popup(opr[p], "Virtual Environment Setup"))
    /\ UNCHANGED <<installed, fs, lock, packages_to_install, in_venv, ncalls, iwr>>

\* Lines 121-124: the environment's pip is started with all dependencies.
install_dependencies_call(p) ==
    /\ At(p, "id_call")
    /\ stack' = [stack EXCEPT ![p] = Goto(@, "id_pip")]
    /\ opr' = [opr EXCEPT ![p].subprocs = @ + 1, ![p].depinstalls = @ + 1]
    /\ UNCHANGED <<installed, fs, lock, packages_to_install, in_venv, ncalls, iwr>>

\* Lines 124-129: that pip exits; a failure is caught, shown, and the function returns.
install_dependencies_exit(p) ==
    /\ At(p, "id_pip")
    /\ \/ /\ venv_packages' = venv_packages \cup Dependencies
          /\ Return(p, opr[p])
       \/ /\ UNCHANGED venv_packages
          /\ Return(p, show_popup(opr[p], "Installation Error"))
    /\ UNCHANGED <<installed, venv_dir, activate_script, lock, packages_to_install,
                   in_venv, ncalls, iwr>>

\* ---------------------------------------------- check_and_install_package
\* Line 173: importlib.import_module(name) succeeds in process p.
Importable(p, name) == name \in Stdlib \cup installed[Env(p)]

\* Lines 168-176: True when the import succeeds, False on ImportError.
is_standard_library_by_name(p, name) == name \in Stdlib
is_standard_library(p, name) == Importable(p, name)

\* Lines 143-154: the probe; an importable name returns at once; otherwise, with
\* use_venv outside a virtual environment, create_virtualenv() is called, and then
\* (or directly) install_with_retry(package_name).
check_and_install_package_probe(p) ==
    /\ At(p, "cip_probe")
    /\ LET f == Top(stack[p])
           o == [opr[p] EXCEPT !.probe = IF is_standard_library(p, f.pkg) THEN "true" ELSE "false",
                               !.importable = Importable(p, f.pkg)] IN
       IF is_standard_library(p, f.pkg)
       THEN Return(p, o) /\ UNCHANGED iwr
       ELSE IF f.uv /\ ~in_venv[p]
       THEN /\ stack' = [stack EXCEPT ![p] =
                            Push(Goto(@, "cip_install"), Frame("cv_check", "", FALSE, 0, 0))]
            /\ opr' = [opr EXCEPT ![p] = o]
            /\ UNCHANGED iwr
       ELSE /\ EnterIwr(p, Goto(stack[p], "cip_end_try"), f.pkg, DefaultRetries)
            /\ opr' = [opr EXCEPT ![p] = o]
    /\ UNCHANGED <<installed, fs, lock, packages_to_install, in_venv, ncalls>>

\* Line 173 raises something other than ImportError (the module is found but broken):
\* is_standard_library lets it pass, and line 163 catches it.
check_and_install_package_probe_error(p) ==
    /\ At(p, "cip_probe")
    /\ ~Importable(p, Top(stack[p]).pkg)
    /\ stack' = [stack EXCEPT ![p] =
                    SetTop(@, [Top(@) EXCEPT !.pc = "cip_except_Exception", !.exc = "SyntaxError"])]
    /\ opr' = [opr EXCEPT ![p].probe = "error"]
    /\ UNCHANGED <<installed, fs, lock, packages_to_install, in_venv, ncalls, iwr>>

\* Line 154, after create_virtualenv has returned.
check_and_install_package_install(p) ==
    /\ At(p, "cip_install")
    /\ EnterIwr(p, Goto(stack[p], "cip_end_try"), Top(stack[p]).pkg, DefaultRetries)
    /\ UNCHANGED <<installed, fs, lock, packages_to_install, in_venv, ncalls, opr>>

\* The end of the try body with the fallback of the specification put there and no
\* guard on its depth: after exhaustion outside a virtual environment, the prompt.
check_and_install_package_end_prompting(p) ==
    /\ At(p, "cip_end_try")
    /\ LET f == Top(stack[p]) IN
       IF "exhausted" \in iwr[p].logs /\ ~in_venv[p]
       THEN /\ stack' = [stack EXCEPT ![p] =
                            Push(Goto(@, "cip_except_Exception"), Frame("swp_ask", f.pkg, FALSE, 0, 0))]
            /\ opr' = [opr EXCEPT ![p].exhausted = Append(@, f.pkg)]
       ELSE Return(p, opr[p])
    /\ UNCHANGED <<installed, fs, lock, packages_to_install, in_venv, ncalls, iwr>>

\* install_with_retry has returned: the try body ends and the function returns.
check_and_install_package_end(p) ==
    /\ At(p, "cip_end_try")
    /\ Return(p, [opr[p] EXCEPT !.exhausted =
                     IF "exhausted" \in iwr[p].logs THEN Append(@, Top(stack[p]).pkg) ELSE @])
    /\ UNCHANGED <<installed, fs, lock, packages_to_install, in_venv, ncalls, iwr>>

\* Lines 163-165 with the error raised again after logging.
check_and_install_package_reraise(p) ==
    /\ At(p, "cip_except_Exception")
    /\ LET r == Raise(Pop(stack[p]), Top(stack[p]).exc) IN
       /\ stack' = [stack EXCEPT ![p] = r.stack]
       /\ opr' = [opr EXCEPT ![p].unexpected = @ + 1, ![p].done = (r.stack = <<>>),
                              ![p].uncaught = r.exc]
    /\ UNCHANGED <<installed, fs, lock, packages_to_install, in_venv, ncalls, iwr>>

\* Lines 163-165: the unexpected error is logged and the function returns.
check_and_install_package_except(p) ==
    /\ At(p, "cip_except_Exception")
    /\ Return(p, [opr[p] EXCEPT !.unexpected = @ + 1])
    /\ UNCHANGED <<installed, fs, lock, packages_to_install, in_venv, ncalls, iwr>>

\* ------------------------------------------------ show_virtualenv_prompt
\* Lines 181-184: the yes/no question is shown.
show_virtualenv_prompt_ask(p) ==
    /\ At(p, "swp_ask")
    /\ stack' = [stack EXCEPT ![p] = Goto(@, "swp_answer")]
    /\ opr' = [opr EXCEPT ![p].prompts = Append(@, Top(stack[p]).pkg)]
    /\ UNCHANGED <<installed, fs, lock, packages_to_install, in_venv, ncalls, iwr>>

\* Every answer of the dialog taken as consent.
AcceptsAny(answer) == TRUE

\* Line 186: user_response == 'yes'.
Accepts(answer) == answer = "yes"

\* Lines 183-192: askquestion returns 'yes' or 'no'; on yes create_virtualenv() is
\* called; otherwise the refusal is printed and logged and the function returns.
show_virtualenv_prompt_answer(p) ==
    /\ At(p, "swp_answer")
    /\ \E answer \in {"yes", "no"} :
          IF Accepts(answer)
          THEN /\ stack' = [stack EXCEPT ![p] =
                               Push(Goto(@, "swp_reinstall"), Frame("cv_check", "", FALSE, 0, 0))]
               /\ opr' = [opr EXCEPT ![p].answers = Append(@, answer)]
          ELSE Return(p, [opr[p] EXCEPT !.answers = Append(@, answer)])
    /\ UNCHANGED <<installed, fs, lock, packages_to_install, in_venv, ncalls, iwr>>

\* Line 189: reinstall_libraries_in_virtualenv() is called.
show_virtualenv_prompt_reinstall(p) ==
    /\ At(p, "swp_reinstall")
    /\ stack' = [stack EXCEPT ![p] = Push(Goto(@, "swp_end"), Frame("rl_loop", "", FALSE, 1, 0))]
    /\ UNCHANGED <<installed, fs, lock, packages_to_install, in_venv, ncalls, iwr, opr>>

show_virtualenv_prompt_end(p) ==
    /\ At(p, "swp_end")
    /\ Return(p, opr[p])
    /\ UNCHANGED <<installed, fs, lock, packages_to_install, in_venv, ncalls, iwr>>

\* Lines 197-198: the next package of packages_to_install, with use_venv=True.
reinstall_libraries_in_virtualenv(p) ==
    /\ At(p, "rl_loop")
    /\ LET f == Top(stack[p]) IN
       IF f.k <= Len(packages_to_install[p])
       THEN /\ stack' = [stack EXCEPT ![p] =
                            Push(SetTop(@, [f EXCEPT !.k = f.k + 1]),
                                 Frame("cip_probe", packages_to_install[p][f.k], TRUE, 0, 0))]
            /\ opr' = [opr EXCEPT ![p].reinstalled = Append(@, packages_to_install[p][f.k])]
       ELSE Return(p, opr[p])
    /\ UNCHANGED <<installed, fs, lock, packages_to_install, in_venv, ncalls, iwr>>

\* ------------------------------------------------- start_library_download
\* A line of the scanned script: "import pkg...", "from pkg... import ..." or the
\* comment "# Required: pkg<op>version".
Line(kind, pkg, op) == [kind |-> kind, pkg |-> pkg, op |-> op]

Scripts ==
    { << Line("import", "numpy", "") >>,
      << Line("import", "numpy", ""), Line("from", "numpy", "") >>,
      << Line("required", "numpy", "<"), Line("import", "numpy", ""), Line("import", "os", "") >>,
      << Line("required", "six", ">="), Line("import", "six", "") >> }

\* Lines 21-23: the key the regular expression #\s*Required:\s*(\S+)([<>=!]+)(\S+)
\* captures for a requirement comment. (\S+) is greedy and gives back only what the
\* rest needs, so of a two-character operator it keeps the first character: the key
\* is <<pkg, that character>>; a one-character operator leaves the name, <<pkg, "">>.
RequirementKey(l) ==
    IF l.op \in {"<", ">"} THEN <<l.pkg, "">>
    ELSE IF l.op = ">=" THEN <<l.pkg, ">">>
    ELSE IF l.op = "<=" THEN <<l.pkg, "<">>
    ELSE IF l.op = "==" THEN <<l.pkg, "=">>
    ELSE <<l.pkg, "!">>

extract_version_from_comments(script) ==
    { RequirementKey(script[i]) : i \in { j \in 1..Len(script) : script[j].kind = "required" } }

\* Lines 217-222: the names of the import lines, in order, that are no key of
\* version_requirements; each is appended, with no look at the list.
RECURSIVE ScannedNames(_, _)
ScannedNames(script, reqs) ==
    IF script = <<>> THEN <<>>
    ELSE LET l == Head(script)
             rest == ScannedNames(Tail(script), reqs) IN
         IF l.kind \in {"import", "from"} /\ <<l.pkg, "">> \notin reqs
         THEN <<l.pkg>> \o rest
         ELSE rest

\* Lines 205-222: the script is read and its names are appended to packages_to_install.
start_library_download_scan(p) ==
    /\ At(p, "sld_scan")
    /\ \E script \in Scripts :
         packages_to_install' = [packages_to_install EXCEPT ![p] =
             @ \o ScannedNames(script, extract_version_from_comments(script))]
    /\ stack' = [stack EXCEPT ![p] = SetTop(@, [Top(@) EXCEPT !.pc = "sld_loop", !.k = 1])]
    /\ UNCHANGED <<installed, fs, lock, in_venv, ncalls, iwr, opr>>

\* Line 210: your_script.py cannot be opened.
start_library_download_nofile(p) ==
    /\ At(p, "sld_scan")
    /\ LET r == Raise(Pop(stack[p]), "FileNotFoundError") IN Finish(p, r.stack, r.exc)
    /\ UNCHANGED <<installed, fs, lock, packages_to_install, in_venv, ncalls, iwr>>

\* Lines 224-225: the next name of packages_to_install is checked and installed.
start_library_download_loop(p) ==
    /\ At(p, "sld_loop")
    /\ LET f == Top(stack[p]) IN
       IF f.k <= Len(packages_to_install[p])
       THEN /\ stack' = [stack EXCEPT ![p] =
                            Push(SetTop(@, [f EXCEPT !.k = f.k + 1]),
                                 Frame("cip_probe", packages_to_install[p][f.k], FALSE, 0, 0))]
            /\ opr' = [opr EXCEPT ![p].checked = Append(@, packages_to_install[p][f.k])]
       ELSE Return(p, opr[p])
    /\ UNCHANGED <<installed, fs, lock, packages_to_install, in_venv, ncalls, iwr>>

\* ------------------------------------------------------------ import hook
\* src/__init__.py lines 12-17. st is what importlib.import_module(name) meets:
\* "loaded" (the module is in sys.modules: it returns), "blocked" (it raises
\* ImportError) or "absent" (the import system asks sys.meta_path, whose first entry
\* is this hook: find_spec is entered again for the same name).
find_spec_probe(p) ==
    /\ At(p, "fs_probe")
    /\ LET f == Top(stack[p]) IN
       CASE f.st = "loaded" -> Return(p, opr[p])
         [] f.st = "blocked" ->
              /\ stack' = [stack EXCEPT ![p] =
                              Push(Goto(@, "fs_return"), Frame("iwl_acquire", f.pkg, FALSE, 0, 0))]
              /\ UNCHANGED opr
         [] OTHER ->
              IF f.k < MaxDepth
              THEN /\ stack' = [stack EXCEPT ![p] =
                                   Push(Goto(@, "fs_imported"), [f EXCEPT !.k = f.k + 1])]
                   /\ opr' = [opr EXCEPT ![p].reentered = @ + 1]
              ELSE LET r == Raise(Pop(stack[p]), "RecursionError") IN Finish(p, r.stack, r.exc)
    /\ UNCHANGED <<installed, fs, lock, packages_to_install, in_venv, ncalls, iwr>>

\* Line 17, after install_with_lock has returned; and the inner find_spec's None.
find_spec_return(p) ==
    /\ At(p, "fs_return") \/ At(p, "fs_imported")
    /\ Return(p, opr[p])
    /\ UNCHANGED <<installed, fs, lock, packages_to_install, in_venv, ncalls, iwr>>

\* install_with_lock(name): imported by src/__init__.py line 5 and defined nowhere in
\* src/downloader.py; modelled from the specification's Lock Manager (section 4.2):
\* a blocking exclusive lock on <tmp>/<name>.lock is taken, install_with_retry(name)
\* runs, and the lock is released on every exit path.
install_with_lock_acquire(p) ==
    /\ At(p, "iwl_acquire")
    /\ LET f == Top(stack[p]) IN
       /\ lock[f.pkg] = 0
       /\ lock' = [lock EXCEPT ![f.pkg] = p]
       /\ EnterIwr(p, Goto(stack[p], "iwl_unlock"), f.pkg, DefaultRetries)
    /\ opr' = [opr EXCEPT ![p].locks = @ + 1]
    /\ UNCHANGED <<installed, fs, packages_to_install, in_venv, ncalls>>

ReleaseNever(l, name) == l
Release(l, name) == [l EXCEPT ![name] = 0]

install_with_lock_unlock(p) ==
    /\ At(p, "iwl_unlock")
    /\ LET f == Top(stack[p]) IN
       /\ lock' = Release(lock, f.pkg)
       /\ IF f.exc = "none"
          THEN Return(p, opr[p])
          ELSE LET r == Raise(Pop(stack[p]), f.exc) IN Finish(p, r.stack, r.exc)
    /\ UNCHANGED <<installed, fs, packages_to_install, in_venv, ncalls, iwr>>

\* ------------------------------------------------------- top-level calls
\* A caller outside the module calls one of its functions in an idle process.
Call(p, fn, pkg, uv, f) ==
    /\ stack[p] = <<>> /\ ncalls < MaxCalls
    /\ stack' = [stack EXCEPT ![p] = <<f>>]
    /\ opr' = [opr EXCEPT ![p] = StartOp(fn, pkg, uv)]
    /\ iwr' = [iwr EXCEPT ![p] = NoIwr]
    /\ ncalls' = ncalls + 1
    /\ UNCHANGED <<installed, fs, lock, packages_to_install, in_venv>>

\* What importlib.import_module(name) can meet inside the hook.
ModuleStates == {"loaded", "blocked", "absent"}

Call_install_with_retry(p, names) ==
    \E name \in names, retries \in RetryArgs :
        Call(p, "install_with_retry", name, FALSE, Frame("iwr_enter", name, FALSE, 0, retries))

Call_check_and_install_package(p, names, flags) ==
    \E name \in names, use_venv \in flags :
        Call(p, "check_and_install_package", name, use_venv,
             Frame("cip_probe", name, use_venv, 0, 0))

Call_start_library_download(p) ==
    Call(p, "start_library_download", "", FALSE, Frame("sld_scan", "", FALSE, 0, 0))

Call_show_virtualenv_prompt(p, names) ==
    \E name \in names :
        Call(p, "show_virtualenv_prompt", name, FALSE, Frame("swp_ask", name, FALSE, 0, 0))

Call_create_virtualenv(p) ==
    \E install_deps \in BOOLEAN :
        Call(p, "create_virtualenv", "", install_deps, Frame("cv_check", "", install_deps, 0, 0))

Call_find_spec(p, names, states) ==
    \E name \in names, st \in states :
        /\ st = "loaded" => Importable(p, name)
        /\ Call(p, "find_spec", name, FALSE,
                [Frame("fs_probe", name, FALSE, 0, 0) EXCEPT !.st = st])

\* The steps inside the module's functions.
Inner(p, codes) ==
    \/ install_with_retry_enter(p)
    \/ install_with_retry_call(p)
    \/ install_with_retry_oserror(p)
    \/ install_with_retry_exit(p, codes)
    \/ install_with_retry_wake(p)
    \/ create_virtualenv_check(p)
    \/ create_virtualenv_exit(p)
    \/ create_virtualenv_activate(p)
    \/ create_virtualenv_popup(p)
    \/ install_dependencies_call(p)
    \/ install_dependencies_exit(p)
    \/ check_and_install_package_probe(p)
    \/ check_and_install_package_probe_error(p)
    \/ check_and_install_package_install(p)
    \/ check_and_install_package_end(p)
    \/ check_and_install_package_except(p)
    \/ show_virtualenv_prompt_ask(p)
    \/ show_virtualenv_prompt_answer(p)
    \/ show_virtualenv_prompt_reinstall(p)
    \/ show_virtualenv_prompt_end(p)
    \/ reinstall_libraries_in_virtualenv(p)
    \/ start_library_download_scan(p)
    \/ start_library_download_nofile(p)
    \/ start_library_download_loop(p)
    \/ find_spec_probe(p)
    \/ find_spec_return(p)
    \/ install_with_lock_acquire(p)
    \/ install_with_lock_unlock(p)

\* One process: every function of the module, every input.
Next ==
    \/ Call_install_with_retry(1, Names)
    \/ Call_check_and_install_package(1, Names, BOOLEAN)
    \/ Call_start_library_download(1)
    \/ Call_show_virtualenv_prompt(1, Names)
    \/ Call_create_virtualenv(1)
    \/ Call_find_spec(1, Names, ModuleStates)
    \/ Inner(1, ExitCodes)

Spec == Init /\ [][Next]_vars

\* Two processes, each running the two install paths (check_and_install_package, and
\* the import hook for a name whose import raises ImportError) for the installable
\* names; pip succeeds (0) or fails (1).
ConcNames == Names \ Stdlib
ConcCodes == {0, 1}

ConcInner(p) ==
    \/ install_with_retry_call(p)
    \/ install_with_retry_oserror(p)
    \/ install_with_retry_exit(p, ConcCodes)
    \/ install_with_retry_wake(p)
    \/ check_and_install_package_probe(p)
    \/ check_and_install_package_probe_error(p)
    \/ check_and_install_package_end(p)
    \/ check_and_install_package_except(p)
    \/ find_spec_probe(p)
    \/ find_spec_return(p)
    \/ install_with_lock_acquire(p)
    \/ install_with_lock_unlock(p)

ConcStep(p) ==
    \/ Call_check_and_install_package(p, ConcNames, {FALSE})
    \/ Call_find_spec(p, ConcNames, {"blocked"})
    \/ ConcInner(p)

ConcNext == \E p \in Procs : ConcStep(p)

ConcSpec == ConcInit /\ [][ConcNext]_vars

\* Every process that can take a step eventually takes one: the operating system
\* schedules each process, pip and sleep end, and a freed lock file is granted.
FairConcSpec == ConcSpec /\ \A p \in Procs : WF_vars(ConcStep(p))

\* ================================================================ claims
\* An install sequence of process p for name is in progress: install_with_retry has
\* started pip at least once and has not returned.
SequenceInProgress(p, name) == iwr[p].live /\ iwr[p].pkg = name /\ iwr[p].pips >= 1

\* Process p holds the lock of name for an install sequence (install_with_lock).
InLockedSequence(p, name) ==
    \E i \in 1..Len(stack[p]) : stack[p][i].pc = "iwl_unlock" /\ stack[p][i].pkg = name

\* C1: mutual exclusion. For every package name, at most one process has a pip
\* install sequence for that name in progress at any time.
C1_MutualExclusion ==
    \A name \in Names : \A p, q \in Procs :
        (SequenceInProgress(p, name) /\ SequenceInProgress(q, name)) => p = q

\* C2: for a name the availability probe resolves as importable,
\* check_and_install_package returns having started no subprocess (no pip, no venv
\* creation) and taken no lock, whatever use_venv is, on every call.
C2_ImportableIsNoOp ==
    \A p \in Procs :
        (opr[p].fn = "check_and_install_package" /\ opr[p].importable)
            => /\ opr[p].done /\ stack[p] = <<>>
               /\ opr[p].subprocs = 0 /\ opr[p].creations = 0 /\ opr[p].locks = 0
               /\ iwr[p].pips = 0

\* A repeated call: the name is importable because an earlier call installed it, and
\* the call, made with use_venv=True, has returned.
C2_Witness ==
    \E p \in Procs :
        /\ opr[p].fn = "check_and_install_package" /\ opr[p].importable /\ opr[p].done
        /\ opr[p].uv /\ opr[p].pkg \notin Stdlib /\ ncalls = 2

\* C3: a backoff sleep occurs only between two attempts, never after the final one:
\* fewer sleeps than retries at any time, and exactly retries-1 sleeps when every
\* attempt has failed.
C3_NoSleepAfterFinalAttempt ==
    \A p \in Procs :
        /\ iwr[p].live => Len(iwr[p].sleeps) < iwr[p].n
        /\ (iwr[p].returned /\ "exhausted" \in iwr[p].logs)
               => Len(iwr[p].sleeps) = iwr[p].n - 1

\* C4: the delay slept after failed attempt k is 2^(k-1), whatever the exit code, so
\* the delays of one retry sequence never decrease; one sleep follows each failure.
C4_BackoffDelays ==
    \A p \in Procs :
        /\ \A k \in 1..Len(iwr[p].sleeps) : iwr[p].sleeps[k] = 2 ^ (k - 1)
        /\ \A j, k \in 1..Len(iwr[p].sleeps) : j <= k => iwr[p].sleeps[j] <= iwr[p].sleeps[k]
        /\ At(p, "iwr_sleep") => Len(iwr[p].sleeps) = iwr[p].pips

\* Three failures with an unclassified exit code last: the delays were 1, 2, 4.
C4_Witness ==
    \E p \in Procs : iwr[p].sleeps = <<1, 2, 4>> /\ iwr[p].code = 4 /\ iwr[p].msg = "unknown"

C6_ExhaustionResult ==
    \A p \in Procs :
        (iwr[p].returned /\ "exhausted" \in iwr[p].logs)
            => /\ iwr[p].pips = iwr[p].n
               /\ iwr[p].result = [succeeded |-> FALSE, attempts |-> iwr[p].n,
                                   lastExitCode |-> iwr[p].code]

\* C7: whenever an install exhausts its retries inside check_and_install_package
\* outside a virtual environment, the isolation prompt is shown for that name, once.
C7_PromptOnExhaustion ==
    \A p \in Procs :
        (opr[p].fn \in {"check_and_install_package", "start_library_download"}
            /\ opr[p].done /\ ~in_venv[p])
            => opr[p].prompts = opr[p].exhausted

\* C8: the message of a failed attempt depends on the exit code alone: 1 generic,
\* 2 outdated tool, 3 dependency conflict, any other nonzero code unknown; for every
\* attempt number and every package name.
C8_Classification ==
    \A p \in Procs :
        iwr[p].msg /= "none"
            => /\ iwr[p].code /= 0
               /\ iwr[p].code = 1 => iwr[p].msg = "generic"
               /\ iwr[p].code = 2 => iwr[p].msg = "outdated"
               /\ iwr[p].code = 3 => iwr[p].msg = "conflict"
               /\ iwr[p].code \notin {1, 2, 3} => iwr[p].msg = "unknown"

\* The third attempt for "six" fails with code 3 after other failures.
C8_Witness ==
    \E p \in Procs :
        /\ iwr[p].pkg = "six" /\ iwr[p].pips = 3 /\ iwr[p].code = 3
        /\ iwr[p].msg = "conflict" /\ At(p, "iwr_sleep")

\* C9: the lock of a name is held only while the install sequence that took it is in
\* progress (it is released on success, on exhaustion and on an unexpected error),
\* and a process waiting for the lock eventually proceeds.
C9_LockReleased ==
    /\ [](\A name \in Names :
            /\ lock[name] /= 0 => InLockedSequence(lock[name], name)
            /\ \A p \in Procs : InLockedSequence(p, name) => lock[name] = p)
    /\ \A p \in Procs : At(p, "iwl_acquire") ~> ~At(p, "iwl_acquire")

\* Both processes took the lock of the same name, one sequence ended by an
\* unexpected error, and the lock is free again.
C9_Witness ==
    /\ \A p \in Procs : opr[p].fn = "find_spec" /\ opr[p].done /\ opr[p].locks = 1
                        /\ opr[p].pkg = "numpy"
    /\ \E p \in Procs : opr[p].uncaught = "OSError"
    /\ \E p \in Procs : "exhausted" \in iwr[p].logs
    /\ \A name \in Names : lock[name] = 0

\* C10: each package name occurs at most once in packages_to_install.
C10_PendingSetUnique ==
    \A p \in Procs :
        \A i, j \in 1..Len(packages_to_install[p]) :
            packages_to_install[p][i] = packages_to_install[p][j] => i = j

\* C11: when the activation script is absent after the creation step of
\* create_virtualenv, the call ends with the error shown, and issues no dependency
\* install and no activation instructions, also with install_deps true.
C11_MissingScriptIsError ==
    \A p \in Procs :
        (opr[p].fn = "create_virtualenv" /\ opr[p].script = "absent")
            => /\ opr[p].done /\ stack[p] = <<>> /\ opr[p].uncaught = "none"
               /\ opr[p].popups = <<"Error">>
               /\ opr[p].depinstalls = 0
               /\ venv_packages = {}

\* create_virtualenv(install_deps=True) created the directory, found no script, and
\* has returned.
C11_Witness ==
    \E p \in Procs :
        /\ opr[p].fn = "create_virtualenv" /\ opr[p].uv /\ opr[p].script = "absent"
        /\ opr[p].created = 1 /\ opr[p].done /\ venv_dir /\ ~activate_script

\* C12: create_virtualenv starts the creation subprocess only when the venv directory
\* does not exist: in one process's sequence of calls every creation subprocess
\* starts and ends successfully only with the directory absent before, the directory
\* once there stays, and so at most one creation succeeds and calls made after the
\* directory exists create nothing.
C12_IdempotentCreation ==
    [][ /\ \A p \in Procs :
             /\ opr'[p].creations > opr[p].creations => ~venv_dir
             /\ opr'[p].created > opr[p].created => (~venv_dir /\ venv_dir')
        /\ venv_dir => venv_dir' ]_vars

\* A second call of create_virtualenv, made when the directory existed, has returned
\* without a creation subprocess.
C12_Witness ==
    \E p \in Procs :
        /\ opr[p].fn = "create_virtualenv" /\ opr[p].done /\ ncalls = 2
        /\ opr[p].creations = 0 /\ opr[p].subprocs = 0 /\ venv_dir

\* C13: per-name failure isolation. In start_library_download a failure while probing
\* or installing one name never keeps the remaining names from being processed: the
\* names are passed to check_and_install_package in list order, no error leaves the
\* loop, and once the call has returned every name of the list has been passed.
C13_FailureIsolation ==
    \A p \in Procs :
        opr[p].fn = "start_library_download"
            => /\ opr[p].uncaught \in {"none", "FileNotFoundError"}
               /\ opr[p].uncaught = "FileNotFoundError" => opr[p].checked = <<>>
               /\ Len(opr[p].checked) <= Len(packages_to_install[p])
               /\ opr[p].checked = SubSeq(packages_to_install[p], 1, Len(opr[p].checked))
               /\ (opr[p].done /\ opr[p].uncaught = "none")
                      => opr[p].checked = packages_to_install[p]

\* A run over two names has returned: one name met an unexpected error, the other
\* exhausted its retries, and both were passed on.
C13_Witness ==
    \E p \in Procs :
        /\ opr[p].fn = "start_library_download" /\ opr[p].done
        /\ Len(opr[p].checked) >= 2 /\ opr[p].checked = packages_to_install[p]
        /\ opr[p].unexpected >= 1 /\ Len(opr[p].exhausted) >= 1

\* C14: check_and_install_package is the outermost catch: whatever the name and the
\* flags, every error raised while probing, creating the environment or installing
\* is caught and logged inside it, and no exception reaches its caller.
C14_NoExceptionEscapes ==
    \A p \in Procs :
        opr[p].fn = "check_and_install_package" => opr[p].uncaught = "none"

\* ------------------------------------------------------ the isolation path
\* One process scans scripts and is shown the isolation prompt; every step that can
\* be taken is taken in the end: pip, the venv subprocess and the sleeps end, and the
\* user answers the prompt.
\* pip succeeds or fails; which failure it is plays no part on this path.
IsoCodes == {0, 1}

IsoInner(p) ==
    \/ install_with_retry_call(p)
    \/ install_with_retry_oserror(p)
    \/ install_with_retry_exit(p, IsoCodes)
    \/ install_with_retry_wake(p)
    \/ create_virtualenv_check(p)
    \/ create_virtualenv_exit(p)
    \/ create_virtualenv_activate(p)
    \/ check_and_install_package_probe(p)
    \/ check_and_install_package_probe_error(p)
    \/ check_and_install_package_install(p)
    \/ check_and_install_package_end(p)
    \/ check_and_install_package_except(p)
    \/ show_virtualenv_prompt_ask(p)
    \/ show_virtualenv_prompt_answer(p)
    \/ show_virtualenv_prompt_reinstall(p)
    \/ show_virtualenv_prompt_end(p)
    \/ reinstall_libraries_in_virtualenv(p)
    \/ start_library_download_scan(p)
    \/ start_library_download_nofile(p)
    \/ start_library_download_loop(p)

IsoNext ==
    \/ Call_start_library_download(1)
    \/ Call_show_virtualenv_prompt(1, Names)
    \/ IsoInner(1)

FairIsoSpec == Init /\ [][IsoNext]_vars /\ WF_vars(IsoNext)

\* The frames of show_virtualenv_prompt on the stack of process p.
PromptFrames(p) ==
    { i \in 1..Len(stack[p]) :
        stack[p][i].pc \in {"swp_ask", "swp_answer", "swp_reinstall", "swp_end"} }

C16_FailedNameReinstalled ==
    \A p \in Procs :
        (/\ opr[p].fn = "show_virtualenv_prompt" /\ opr[p].done
         /\ opr[p].uncaught = "none" /\ opr[p].answers = <<"yes">>)
            => /\ opr[p].reinstalled = packages_to_install[p]
               /\ \E i \in 1..Len(opr[p].reinstalled) : opr[p].reinstalled[i] = opr[p].pkg

\* C17: when the user answered no, the call has returned and has created no
\* environment, run no subprocess, re-installed no name, shown no popup and no
\* further prompt.
C17_RefusalOnlyLogs ==
    \A p \in Procs :
        (opr[p].fn = "show_virtualenv_prompt" /\ opr[p].answers = <<"no">>)
            => /\ opr[p].done /\ stack[p] = <<>> /\ opr[p].uncaught = "none"
               /\ opr[p].creations = 0 /\ opr[p].created = 0 /\ opr[p].subprocs = 0
               /\ opr[p].reinstalled = <<>> /\ opr[p].checked = <<>>
               /\ opr[p].popups = <<>> /\ Len(opr[p].prompts) = 1

\* The prompt was refused while names were pending and no venv directory existed:
\* nothing was created and the pending names were left alone.
C17_Witness ==
    \E p \in Procs :
        /\ opr[p].fn = "show_virtualenv_prompt" /\ opr[p].done
        /\ opr[p].answers = <<"no">>
        /\ packages_to_install[p] /= <<>> /\ ~venv_dir

\* check_and_install_package is active for process p with use_venv=True.
IsolationOn(p) ==
    \E i \in 1..Len(stack[p]) : stack[p][i].pc \in CipTryPcs /\ stack[p][i].uv

\* C18: a pip install issued while check_and_install_package runs with use_venv=True,
\* after create_virtualenv has run for a process started outside a virtual
\* environment, installs into the environment at venv.
C18_PipTargetsVenv ==
    \A p \in Procs :
        (/\ IsolationOn(p) /\ ~in_venv[p]
         /\ venv_dir /\ opr[p].script = "present"
         /\ iwr[p].live /\ iwr[p].pips >= 1)
            => iwr[p].target = "venv"

\* C19: while start_library_download runs, and once it is done, no name of
\* packages_to_install is a standard-library or an importable name.
C19_PendingNamesUnavailable ==
    \A p \in Procs :
        opr[p].fn = "start_library_download"
            => \A i \in 1..Len(packages_to_install[p]) :
                   /\ packages_to_install[p][i] \notin Stdlib
                   /\ ~Importable(p, packages_to_install[p][i])

\* C20: a call of find_spec never re-enters find_spec for the same name and no
\* exception leaves it: it returns None.
C20_HookDoesNotReenter ==
    \A p \in Procs :
        opr[p].fn = "find_spec"
            => /\ opr[p].reentered = 0
               /\ opr[p].uncaught = "none"
               /\ (opr[p].done => stack[p] = <<>>)
====
